---- MODULE Spec2Model ----
(***************************************************************************)
(* Wang-Landau single-walker sampling engine (WLDriver), its two schedules *)
(* (Geometric, OneOverT) and its two flatness criteria (Fraction, RMS).    *)
(*                                                                         *)
(* Numbers.  The f64 quantities ln_f, ln_g[b], alpha, tol and the flatness *)
(* parameter are exact rationals <<n, d>> with d > 0 in lowest terms.  The *)
(* places where f64 rounding decides a comparison inside the bounds of     *)
(* this model are stated at the operator concerned (RMS_is_flat).          *)
(*                                                                         *)
(* The random source is an oracle: every value a draw can return is an     *)
(* input of the round that draws it.                                       *)
(***************************************************************************)
EXTENDS Integers, Sequences, FiniteSets, TLC

\* ------------------------------------------------------------------ bounds
NBins == 2          \* number of bins the mapper enumerates
MaxSweep == 2       \* largest params.sweep_len
MaxRounds == 7      \* rounds in one behaviour, over all Step invocations
MaxRun == 2         \* largest max_steps handed to run

\* ------------------------------------------------------- rational numbers
RECURSIVE GCD(_, _)
GCD(a, b) == IF b = 0 THEN a ELSE GCD(b, a % b)

Abs(x) == IF x < 0 THEN -x ELSE x

Norm(n, d) ==
    LET g == GCD(Abs(n), d)
    IN  <<n \div g, d \div g>>

Zero == <<0, 1>>
One == <<1, 1>>

RAdd(a, b) == Norm(a[1] * b[2] + b[1] * a[2], a[2] * b[2])
RSub(a, b) == Norm(a[1] * b[2] - b[1] * a[2], a[2] * b[2])
RMul(a, b) == Norm(a[1] * b[1], a[2] * b[2])
RNeg(a) == <<-a[1], a[2]>>
RLess(a, b) == a[1] * b[2] < b[1] * a[2]
RLeq(a, b) == a[1] * b[2] <= b[1] * a[2]

\* ------------------------------------------------- configuration constants
\* Params::default(): ln_f0 = 1.0, flatness = 0.8
LnF0 == One
Flatness == <<4, 5>>
\* Geometric { alpha: 0.5, tol }, OneOverT { t: 1, tol }
Alpha == <<1, 2>>
Tol == <<2, 5>>

Bins == 0 .. (NBins - 1)
\* one microstate per bin, and one more beyond the last bin's upper edge
States == 0 .. NBins
Schedules == {"Geometric", "OneOverT"}
Criteria == {"Fraction", "RMS"}

\* ------------------------------------------------------------ collaborators
\* Macrospace::locate: the index of the state's bin, clamped to the last bin
locate(s) ==
    LET idx == s
    IN  IF idx < NBins - 1 THEN idx ELSE NBins - 1

\* Move::propose: the state is replaced by a value drawn from the random source
propose(s) == States

\* rng.random::<f64>(): a value of [0, 1) (0 included)
UGrid == {<<0, 1>>, <<1, 4>>, <<1, 2>>, <<3, 4>>}
NoDraw == <<-1, 1>>

\* -ln(u) for the u of UGrid other than 0, to four decimals (rounded down)
NegLn(u) ==
    CASE u = <<1, 4>> -> <<13863, 10000>>
      [] u = <<1, 2>> -> <<6931, 10000>>
      [] u = <<3, 4>> -> <<2877, 10000>>

\* u < exp(delta).  exp(delta) >= 1 > u when delta >= 0; exp(delta) > 0 = u
\* when u = 0; otherwise u < exp(delta) iff -delta < -ln(u).
ULessExp(u, delta) ==
    IF RLeq(Zero, delta) THEN TRUE
    ELSE IF u = Zero THEN TRUE
    ELSE RLess(RNeg(delta), NegLn(u))

\* ----------------------------------------------------------------- flatness
\* hist.len(): a histogram is a function on 0 .. len - 1
HLen(h) == Cardinality(DOMAIN h)

RECURSIVE SumTo(_, _)
SumTo(h, n) == IF n = 0 THEN 0 ELSE h[n - 1] + SumTo(h, n - 1)
Sum(h) == SumTo(h, HLen(h))

RECURSIVE SumSqTo(_, _)
SumSqTo(h, n) == IF n = 0 THEN 0 ELSE h[n - 1] * h[n - 1] + SumSqTo(h, n - 1)
SumSq(h) == SumSqTo(h, HLen(h))

MinOf(h) == CHOOSE m \in {h[b] : b \in DOMAIN h} : \A b \in DOMAIN h : m <= h[b]

\* (mutant) the smallest count has to exceed flat * avg
Fraction_is_flat_Strict(h, p) ==
    IF HLen(h) = 0 THEN FALSE
    ELSE MinOf(h) * HLen(h) * p[2] > p[1] * Sum(h)

\* (mutant) the average is the integer quotient of sum and len
Fraction_is_flat_IntMean(h, p) ==
    IF HLen(h) = 0 THEN FALSE
    ELSE MinOf(h) * p[2] >= p[1] * (Sum(h) \div HLen(h))

\* (mutant) an empty histogram is flat
Fraction_is_flat_EmptyFlat(h, p) ==
    IF HLen(h) = 0 THEN TRUE
    ELSE MinOf(h) * HLen(h) * p[2] >= p[1] * Sum(h)

\* Fraction::is_flat: min >= flat * avg, avg = sum / len
Fraction_is_flat(h, p) ==
    IF HLen(h) = 0 THEN FALSE
    ELSE MinOf(h) * HLen(h) * p[2] >= p[1] * Sum(h)

\* The flatness parameters p for which the f64 value of 1.0 - p lies below
\* the rational 1 - p: f64 1.0 - 0.8 = 0.19999999999999996 and
\* 1.0 - 0.9 = 0.09999999999999998.
OneMinusRoundsDown == {<<4, 5>>, <<9, 10>>}

\* (mutant) the variance is the sample one, divided by len - 1 (0/0 = NaN
\* for a single bin)
RMS_is_flat_Sample(h, p) ==
    IF HLen(h) = 0 THEN FALSE
    ELSE IF Sum(h) = 0 \/ HLen(h) = 1 THEN FALSE
    ELSE LET c == RSub(One, p)
             lhs == (HLen(h) * SumSq(h) - Sum(h) * Sum(h)) * HLen(h)
                        * c[2] * c[2]
             rhs == c[1] * c[1] * Sum(h) * Sum(h) * (HLen(h) - 1)
         IN  IF p \in OneMinusRoundsDown THEN lhs < rhs ELSE lhs <= rhs

\* (mutant) the quotient is compared with flat instead of 1.0 - flat
RMS_is_flat_NoComplement(h, p) ==
    IF HLen(h) = 0 THEN FALSE
    ELSE IF Sum(h) = 0 THEN FALSE
    ELSE LET c == p
             lhs == (HLen(h) * SumSq(h) - Sum(h) * Sum(h)) * c[2] * c[2]
             rhs == c[1] * c[1] * Sum(h) * Sum(h)
         IN  lhs <= rhs

\* RMS::is_flat: sqrt(var) / mean <= 1.0 - flat, var = sum((h - mean)^2) / len.
\* mean = 0 gives 0/0 = NaN and the comparison is false.  Squared, with
\* len^2 * var = len * sum(h^2) - sum(h)^2 and len^2 * mean^2 = sum(h)^2.
\* A quotient that is 1 - p exactly rounds to the f64 nearest 1 - p, which
\* is above the f64 value of 1.0 - p for the p of OneMinusRoundsDown: there
\* the comparison is strict against the rational 1 - p.
RMS_is_flat(h, p) ==
    IF HLen(h) = 0 THEN FALSE
    ELSE IF Sum(h) = 0 THEN FALSE
    ELSE LET c == RSub(One, p)
             lhs == (HLen(h) * SumSq(h) - Sum(h) * Sum(h)) * c[2] * c[2]
             rhs == c[1] * c[1] * Sum(h) * Sum(h)
         IN  IF p \in OneMinusRoundsDown THEN lhs < rhs ELSE lhs <= rhs

is_flat(kind, h, p) ==
    IF kind = "Fraction" THEN Fraction_is_flat(h, p) ELSE RMS_is_flat(h, p)

\* ----------------------------------------------------------------- schedule
\* (mutant) the product is compared with tol but not stored
Geometric_update_NoStore(f, tt) ==
    LET nf == RMul(f, Alpha)
    IN  [ln_f |-> f, t |-> tt, conv |-> RLess(nf, Tol)]

\* (mutant) ln_f is divided by alpha
Geometric_update_Divide(f, tt) ==
    LET nf == RMul(f, <<Alpha[2], Alpha[1]>>)
    IN  [ln_f |-> nf, t |-> tt, conv |-> RLess(nf, Tol)]

\* (mutant) a value equal to tol counts as converged
Geometric_update_Leq(f, tt) ==
    LET nf == RMul(f, Alpha)
    IN  [ln_f |-> nf, t |-> tt, conv |-> RLeq(nf, Tol)]

\* (mutant) the comparison with tol the other way round
Geometric_update_Reversed(f, tt) ==
    LET nf == RMul(f, Alpha)
    IN  [ln_f |-> nf, t |-> tt, conv |-> RLess(Tol, nf)]

\* Geometric::update: *ln_f *= alpha; *ln_f < tol
Geometric_update(f, tt) ==
    LET nf == RMul(f, Alpha)
    IN  [ln_f |-> nf, t |-> tt, conv |-> RLess(nf, Tol)]

\* (mutant) ln_f is set from the counter before the counter is advanced
OneOverT_update_Stale(f, tt) ==
    LET nt == tt + 1
        nf == <<1, tt>>
    IN  [ln_f |-> nf, t |-> nt, conv |-> RLess(nf, Tol)]

\* OneOverT::update: t += 1; *ln_f = 1.0 / t; *ln_f < tol
OneOverT_update(f, tt) ==
    LET nt == tt + 1
        nf == <<1, nt>>
    IN  [ln_f |-> nf, t |-> nt, conv |-> RLess(nf, Tol)]

update(kind, f, tt) ==
    IF kind = "Geometric" THEN Geometric_update(f, tt) ELSE OneOverT_update(f, tt)

\* ------------------------------------------------------------------- engine
VARIABLES
    state,        \* WLDriver.state
    ln_g,         \* WLDriver.ln_g
    hist,         \* WLDriver.hist
    ln_f,         \* WLDriver.ln_f
    step,         \* WLDriver.step
    t,            \* OneOverT.t (held by WLDriver.sched)
    sweep_len,    \* WLDriver.params.sweep_len
    sched,        \* which Schedule WLDriver.sched is
    flat,         \* which Flatness WLDriver.flat is
    pc,           \* position: "idle", "sweep" (in step), "run" / "runret" (in run)
    i,            \* rounds of the current sweep performed so far
    caller,       \* who invoked the Step in progress: "none", "user", "run"
    run_max,      \* max_steps of the run in progress or just ended (else 0)
    run_calls,    \* Step invocations made by that run
    run_true,     \* Steps of that run that returned true
    run_end,      \* how that run ended: "none", "break", "exhausted"
    ret,          \* what the last Step returned: "none", "true", "false"
    was_flat,     \* verdict of is_flat in the last Step
    rnd,          \* the round just performed: bins, proposal, draw, verdict
    calls,        \* Step invocations so far
    n_false,      \* Steps that returned false so far
    n_flat,       \* Steps whose histogram was judged flat so far
    stage_rounds, \* rounds since the last histogram reset
    stage_steps,  \* Steps completed since the last histogram reset
    probe,        \* a schedule or criterion used on its own: inputs, result
    pair          \* two engines built alike, each with its own random source

vars == <<state, ln_g, hist, ln_f, step, t, sweep_len, sched, flat, pc, i,
          caller, run_max, run_calls, run_true, run_end, ret, was_flat, rnd,
          calls, n_false, n_flat, stage_rounds, stage_steps, probe, pair>>

engine == <<state, ln_g, hist, ln_f, step, t>>
config == <<sweep_len, sched, flat>>
runvars == <<run_max, run_calls, run_true, run_end>>
aux == <<probe, pair>>

NoProbe == [kind |-> "none"]
NoPair == <<>>

NoRound == [old |-> -1, new |-> -1, prop |-> -1, u |-> NoDraw,
            accept |-> FALSE, final |-> -1]

\* WLDriver::new
New ==
    /\ state = 0
    /\ ln_g = [b \in Bins |-> Zero]
    /\ hist = [b \in Bins |-> 0]
    /\ ln_f = LnF0
    /\ step = 0
    /\ t = 1
    /\ sweep_len \in 1 .. MaxSweep
    /\ sched \in Schedules
    /\ flat \in Criteria
    /\ pc = "idle"
    /\ i = 0
    /\ caller = "none"
    /\ run_max = 0
    /\ run_calls = 0
    /\ run_true = 0
    /\ run_end = "none"
    /\ ret = "none"
    /\ was_flat = FALSE
    /\ rnd = NoRound
    /\ calls = 0
    /\ n_false = 0
    /\ n_flat = 0
    /\ stage_rounds = 0
    /\ stage_steps = 0

\* one engine has been built, and nothing else
Init ==
    /\ New
    /\ probe = NoProbe
    /\ pair = NoPair

\* (mutant) the difference of the two ln_g entries taken the other way round
Accept_Swapped(g, bo, bn, u) ==
    IF bn = bo THEN TRUE
    ELSE LET delta == RSub(g[bn], g[bo])
         IN  ULessExp(u, delta)

\* --- WL acceptance: bin_new == bin_old, or random::<f64>() < delta.exp()
Accept(g, bo, bn, u) ==
    IF bn = bo THEN TRUE
    ELSE LET delta == RSub(g[bo], g[bn])
         IN  ULessExp(u, delta)

\* (mutant) the old bin is booked whatever the verdict
BinFinal_AlwaysOld(acc, bo, bn) == bo

\* (mutant) the proposed bin is booked whatever the verdict
BinFinal_AlwaysNew(acc, bo, bn) == bn

\* bin_final: bin_new on acceptance, bin_old on rejection
BinFinal(acc, bo, bn) == IF acc THEN bn ELSE bo

\* (mutant) the saved state is not restored on rejection
StateAfter_NoRestore(acc, prev, prop) == prop

\* the state after the round: the proposal, or prev_state restored
StateAfter(acc, prev, prop) == IF acc THEN prop ELSE prev

\* (mutant) the visit is assigned instead of added
Bookkeep_hist_Assign(h, b) == [h EXCEPT ![b] = 1]

\* (mutant) the estimate grows by 1.0 whatever the modification factor is
Bookkeep_ln_g_AddOne(g, b, f) == [g EXCEPT ![b] = RAdd(@, One)]

\* (mutant) the modification factor is taken off the estimate
Bookkeep_ln_g_Subtract(g, b, f) == [g EXCEPT ![b] = RSub(@, f)]

\* --- WL bookkeeping
Bookkeep_ln_g(g, b, f) == [g EXCEPT ![b] = RAdd(@, f)]
Bookkeep_hist(h, b) == [h EXCEPT ![b] = @ + 1]

\* (mutant) step() cannot be invoked once a Step has returned true
StepCall_NotAfterTrue ==
    /\ pc = "idle"
    /\ ret # "true"
    /\ (calls + 1) * sweep_len <= MaxRounds
    /\ pc' = "sweep"
    /\ i' = 0
    /\ caller' = "user"
    /\ calls' = calls + 1
    /\ run_max' = 0
    /\ run_calls' = 0
    /\ run_true' = 0
    /\ run_end' = "none"
    /\ UNCHANGED <<engine, config, aux, ret, was_flat, rnd, n_false, n_flat,
                   stage_rounds, stage_steps>>

\* the caller invokes step()
StepCall ==
    /\ pc = "idle"
    /\ (calls + 1) * sweep_len <= MaxRounds
    /\ pc' = "sweep"
    /\ i' = 0
    /\ caller' = "user"
    /\ calls' = calls + 1
    /\ run_max' = 0
    /\ run_calls' = 0
    /\ run_true' = 0
    /\ run_end' = "none"
    /\ UNCHANGED <<engine, config, aux, ret, was_flat, rnd, n_false, n_flat,
                   stage_rounds, stage_steps>>

\* one iteration of the sweep loop of step()
Round ==
    /\ pc = "sweep"
    /\ i < sweep_len
    /\ \E prop \in propose(state), u \in UGrid \cup {NoDraw} :
          LET bo == locate(state)
              bn == locate(prop)
              acc == Accept(ln_g, bo, bn, u)
              bf == BinFinal(acc, bo, bn)
          IN  /\ (u = NoDraw) <=> (bn = bo)
              /\ state' = StateAfter(acc, state, prop)
              /\ ln_g' = Bookkeep_ln_g(ln_g, bf, ln_f)
              /\ hist' = Bookkeep_hist(hist, bf)
              /\ rnd' = [old |-> bo, new |-> bn, prop |-> prop, u |-> u,
                         accept |-> acc, final |-> bf]
    /\ i' = i + 1
    /\ stage_rounds' = stage_rounds + 1
    /\ UNCHANGED <<ln_f, step, t, config, aux, pc, caller, runvars, ret, was_flat,
                   calls, n_false, n_flat, stage_steps>>

\* (mutant) the reset empties the histogram instead of zeroing its entries
StepTail_ClearsHist(fk, sk, h, f, tt, st) ==
    IF is_flat(fk, h, Flatness)
    THEN LET r == update(sk, f, tt)
         IN  IF r.conv
             THEN [hist |-> <<>>, ln_f |-> r.ln_f, t |-> r.t,
                   step |-> st, ret |-> "true", flat |-> TRUE]
             ELSE [hist |-> <<>>, ln_f |-> r.ln_f, t |-> r.t,
                   step |-> st + 1, ret |-> "false", flat |-> TRUE]
    ELSE [hist |-> h, ln_f |-> f, t |-> tt, step |-> st + 1, ret |-> "false",
          flat |-> FALSE]

\* (mutant) a converged Step returns before the histogram is zeroed
StepTail_NoResetOnConverge(fk, sk, h, f, tt, st) ==
    IF is_flat(fk, h, Flatness)
    THEN LET r == update(sk, f, tt)
         IN  IF r.conv
             THEN [hist |-> h, ln_f |-> r.ln_f, t |-> r.t,
                   step |-> st, ret |-> "true", flat |-> TRUE]
             ELSE [hist |-> [b \in DOMAIN h |-> 0], ln_f |-> r.ln_f, t |-> r.t,
                   step |-> st + 1, ret |-> "false", flat |-> TRUE]
    ELSE [hist |-> h, ln_f |-> f, t |-> tt, step |-> st + 1, ret |-> "false",
          flat |-> FALSE]

\* (mutant) the step counter also counts the Step that converges
StepTail_CountsConverged(fk, sk, h, f, tt, st) ==
    IF is_flat(fk, h, Flatness)
    THEN LET r == update(sk, f, tt)
         IN  [hist |-> [b \in DOMAIN h |-> 0], ln_f |-> r.ln_f, t |-> r.t,
              step |-> st + 1, ret |-> IF r.conv THEN "true" ELSE "false",
              flat |-> TRUE]
    ELSE [hist |-> h, ln_f |-> f, t |-> tt, step |-> st + 1, ret |-> "false",
          flat |-> FALSE]

\* (mutant) the schedule is updated after every sweep, flat or not
StepTail_UpdateAlways(fk, sk, h, f, tt, st) ==
    LET r == update(sk, f, tt)
        fl == is_flat(fk, h, Flatness)
        nh == IF fl THEN [b \in DOMAIN h |-> 0] ELSE h
    IN  IF fl /\ r.conv
        THEN [hist |-> nh, ln_f |-> r.ln_f, t |-> r.t, step |-> st,
              ret |-> "true", flat |-> fl]
        ELSE [hist |-> nh, ln_f |-> r.ln_f, t |-> r.t, step |-> st + 1,
              ret |-> "false", flat |-> fl]

\* what follows the sweep loop in step(): flatness, reset, schedule, counter
StepTail(fk, sk, h, f, tt, st) ==
    IF is_flat(fk, h, Flatness)
    THEN LET r == update(sk, f, tt)
         IN  IF r.conv
             THEN [hist |-> [b \in DOMAIN h |-> 0], ln_f |-> r.ln_f, t |-> r.t,
                   step |-> st, ret |-> "true", flat |-> TRUE]
             ELSE [hist |-> [b \in DOMAIN h |-> 0], ln_f |-> r.ln_f, t |-> r.t,
                   step |-> st + 1, ret |-> "false", flat |-> TRUE]
    ELSE [hist |-> h, ln_f |-> f, t |-> tt, step |-> st + 1, ret |-> "false",
          flat |-> FALSE]

\* the end of step(): the sweep loop is over, step() returns
EndSweep ==
    /\ pc = "sweep"
    /\ i = sweep_len
    /\ LET r == StepTail(flat, sched, hist, ln_f, t, step)
       IN  /\ hist' = r.hist
           /\ ln_f' = r.ln_f
           /\ t' = r.t
           /\ step' = r.step
           /\ ret' = r.ret
           /\ was_flat' = r.flat
           /\ n_false' = IF r.ret = "false" THEN n_false + 1 ELSE n_false
           /\ n_flat' = IF r.flat THEN n_flat + 1 ELSE n_flat
           /\ stage_rounds' = IF r.flat THEN 0 ELSE stage_rounds
           /\ stage_steps' = IF r.flat THEN 0 ELSE stage_steps + 1
           /\ run_true' = IF caller = "run" /\ r.ret = "true"
                          THEN run_true + 1 ELSE run_true
    /\ pc' = IF caller = "run" THEN "runret" ELSE "idle"
    /\ caller' = IF caller = "run" THEN "run" ELSE "none"
    /\ rnd' = NoRound
    /\ UNCHANGED <<state, ln_g, config, aux, i, run_max, run_calls, run_end, calls>>

\* the caller invokes run(max_steps)
RunCall ==
    /\ pc = "idle"
    /\ \E m \in 0 .. MaxRun :
          /\ (calls + m) * sweep_len <= MaxRounds
          /\ run_max' = m
    /\ pc' = "run"
    /\ run_calls' = 0
    /\ run_true' = 0
    /\ run_end' = "none"
    /\ caller' = "run"
    /\ UNCHANGED <<engine, config, aux, i, ret, was_flat, rnd, calls, n_false,
                   n_flat, stage_rounds, stage_steps>>

\* the head of the loop of run(): for _ in 0..max_steps { self.step() ... }
RunLoop ==
    /\ pc = "run"
    /\ IF run_calls < run_max
       THEN /\ pc' = "sweep"
            /\ i' = 0
            /\ run_calls' = run_calls + 1
            /\ calls' = calls + 1
            /\ UNCHANGED <<caller, run_end>>
       ELSE /\ pc' = "idle"
            /\ caller' = "none"
            /\ run_end' = "exhausted"
            /\ UNCHANGED <<i, run_calls, calls>>
    /\ UNCHANGED <<engine, config, aux, run_max, run_true, ret, was_flat, rnd,
                   n_false, n_flat, stage_rounds, stage_steps>>

\* (mutant) the loop of run() goes on after a Step that returned true
RunRet_NoBreak ==
    /\ pc = "runret"
    /\ pc' = "run"
    /\ UNCHANGED <<caller, run_end>>
    /\ UNCHANGED <<engine, config, aux, i, run_max, run_calls, run_true, ret,
                   was_flat, rnd, calls, n_false, n_flat, stage_rounds,
                   stage_steps>>

\* if self.step() { break; }
RunRet ==
    /\ pc = "runret"
    /\ IF ret = "true"
       THEN /\ pc' = "idle"
            /\ caller' = "none"
            /\ run_end' = "break"
       ELSE /\ pc' = "run"
            /\ UNCHANGED <<caller, run_end>>
    /\ UNCHANGED <<engine, config, aux, i, run_max, run_calls, run_true, ret,
                   was_flat, rnd, calls, n_false, n_flat, stage_rounds,
                   stage_steps>>

Next == StepCall \/ Round \/ EndSweep \/ RunCall \/ RunLoop \/ RunRet

Spec == Init /\ [][Next]_vars

\* ---------------------------------------------------- a schedule on its own
\* every variable of the engine and of its callers
wl == <<engine, config, pc, i, caller, runvars, ret, was_flat, rnd, calls,
        n_false, n_flat, stage_rounds, stage_steps>>

\* an engine with Params::default() and the first strategy of each kind, which
\* nobody steps
Parked ==
    /\ New
    /\ sweep_len = 1
    /\ sched = "Geometric"
    /\ flat = "Fraction"

MaxUpdates == 4      \* invocations of update on one schedule
MaxF0Tenths == 20    \* largest initial ln_f, in tenths

\* the initial values of ln_f: 0.1, 0.2, ..., MaxF0Tenths / 10
F0s == {Norm(n, 10) : n \in 1 .. MaxF0Tenths}

\* let mut ln_f = f0; let mut schedule = Geometric { alpha, tol } or
\* OneOverT { t: 1, tol }
InitSched ==
    /\ Parked
    /\ \E k \in Schedules, f \in F0s :
          probe = [kind |-> k, f0 |-> f, ln_f |-> f, t |-> 1, n |-> 0,
                   conv |-> FALSE]
    /\ pair = NoPair

\* let converged = schedule.update(&mut ln_f)
SchedUpdate ==
    /\ probe.n < MaxUpdates
    /\ LET r == update(probe.kind, probe.ln_f, probe.t)
       IN  probe' = [probe EXCEPT !.ln_f = r.ln_f, !.t = r.t, !.n = @ + 1,
                                  !.conv = r.conv]
    /\ UNCHANGED <<wl, pair>>

NextSched == SchedUpdate

SpecSched == InitSched /\ [][NextSched]_vars

\* ---------------------------------------------- a flatness criterion on its own
MaxLen == 3      \* bins of the longest histogram
MaxCount == 4    \* largest number of visits of one bin

\* the histograms: every length from 0 (empty) to MaxLen
Hists == UNION {[0 .. (n - 1) -> 0 .. MaxCount] : n \in 0 .. MaxLen}

\* the flatness parameters, all in (0, 1]; 0.8 is Params::default()
Ps == {<<1, 4>>, <<1, 2>>, <<3, 4>>, <<4, 5>>, <<9, 10>>, One}

\* let criterion = Fraction or RMS; a histogram and a parameter at hand
InitFlat ==
    /\ Parked
    /\ \E k \in Criteria, h \in Hists, q \in Ps :
          probe = [kind |-> k, hist |-> h, p |-> q, done |-> FALSE,
                   res |-> FALSE]
    /\ pair = NoPair

\* let res = criterion.is_flat(&hist, p)
IsFlatCall ==
    /\ ~probe.done
    /\ probe' = [probe EXCEPT !.done = TRUE,
                              !.res = is_flat(probe.kind, probe.hist, probe.p)]
    /\ UNCHANGED <<wl, pair>>

NextFlat == IsFlatCall

SpecFlat == InitFlat /\ [][NextFlat]_vars

\* ------------------------------------------ two engines, one seed, side by side
RngMod == 16        \* states of the generator
MaxSeed == 3        \* largest seed
MaxPairSteps == 3   \* Step invocations on each engine of the pair

\* (mutant) the generator is seeded from the system's entropy
seeded_FromEntropy(seed, entropy) == entropy % RngMod

\* rng::seeded: the generator's state is a function of the seed alone; the
\* system's entropy is not read
seeded(seed, entropy) == seed % RngMod

\* the generator: each draw advances the state and is a function of it
RngNext(x) == (5 * x + 3) % RngMod
\* Move::propose draws the proposed state
RandomRange(x) == x % (NBins + 1)
\* rng.random::<f64>()
RandomF64(x) == Norm((x \div 4) % 4, 4)

\* WLDriver::new on a record: the engine's fields, its random source, what
\* its last Step returned, and what has been done with it so far
Build(s0, r) ==
    [state |-> s0, ln_g |-> [b \in Bins |-> Zero], hist |-> [b \in Bins |-> 0],
     ln_f |-> LnF0, step |-> 0, t |-> 1, rng |-> r, ret |-> "none",
     calls |-> 0, rejects |-> 0]

\* one iteration of the sweep loop of step(), on a record: the proposal is
\* drawn, and a uniform value only when the bin changes
RoundOn(e) ==
    LET bo == locate(e.state)
        r1 == RngNext(e.rng)
        prop == RandomRange(r1)
        bn == locate(prop)
        r2 == IF bn = bo THEN r1 ELSE RngNext(r1)
        u == IF bn = bo THEN NoDraw ELSE RandomF64(r2)
        acc == Accept(e.ln_g, bo, bn, u)
        bf == BinFinal(acc, bo, bn)
    IN  [e EXCEPT !.state = StateAfter(acc, e.state, prop),
                  !.ln_g = Bookkeep_ln_g(e.ln_g, bf, e.ln_f),
                  !.hist = Bookkeep_hist(e.hist, bf),
                  !.rng = r2,
                  !.rejects = IF acc THEN @ ELSE @ + 1]

\* the sweep loop: for _ in 0..sweep_len
RECURSIVE SweepOn(_, _)
SweepOn(e, k) == IF k = 0 THEN e ELSE SweepOn(RoundOn(e), k - 1)

\* step() on a record
StepOn(e, sl, sk, fk) ==
    LET s == SweepOn(e, sl)
        r == StepTail(fk, sk, s.hist, s.ln_f, s.t, s.step)
    IN  [s EXCEPT !.hist = r.hist, !.ln_f = r.ln_f, !.t = r.t,
                  !.step = r.step, !.ret = r.ret, !.calls = @ + 1]

\* two engines built from the same initial state, the same parameters and
\* strategies, and random sources seeded with the same seed
InitPair ==
    /\ New
    /\ probe = NoProbe
    /\ \E s0 \in States, seed \in 0 .. MaxSeed, e1 \in 0 .. MaxSeed,
          e2 \in 0 .. MaxSeed :
          pair = <<Build(s0, seeded(seed, e1)), Build(s0, seeded(seed, e2))>>

\* step() is invoked on one engine of the pair
PairStep ==
    /\ \E k \in 1 .. 2 :
          /\ pair[k].calls < MaxPairSteps
          /\ pair' = [pair EXCEPT ![k] = StepOn(@, sweep_len, sched, flat)]
    /\ UNCHANGED <<wl, probe>>

NextPair == PairStep

SpecPair == InitPair /\ [][NextPair]_vars

\* ------------------------- an engine built without regard to the preconditions
MaxFaultSteps == 2   \* Step invocations on that engine

\* Face::locate: the index is computed from the state and not clamped; the
\* state beyond the last bin gets an index beyond the last bin
Face_locate(s) == s

\* Vec indexing: the index is checked against the length, and a failed check
\* is a panic
IndexOK(g, b) == b \in DOMAIN g

\* (mutant) a round whose bin index fails the check is skipped in silence
RoundChecked_SkipsBadIndex(e, prop, u) ==
    LET bo == Face_locate(e.state)
        bn == Face_locate(prop)
    IN  IF ~IndexOK(e.ln_g, bo) \/ ~IndexOK(e.ln_g, bn)
        THEN [e EXCEPT !.i = @ + 1, !.old = bo, !.new = bn, !.u = u]
        ELSE LET acc == Accept(e.ln_g, bo, bn, u)
                 bf == BinFinal(acc, bo, bn)
             IN  [e EXCEPT !.state = StateAfter(acc, e.state, prop),
                           !.ln_g = Bookkeep_ln_g(e.ln_g, bf, e.ln_f),
                           !.hist = Bookkeep_hist(e.hist, bf),
                           !.i = @ + 1, !.old = bo, !.new = bn, !.u = u]

\* one iteration of the sweep loop of step(), every indexing checked where
\* the code indexes: ln_g[bin_old] - ln_g[bin_new] when the bins differ, then
\* ln_g[bin_final] and hist[bin_final].  A panic leaves the state as it is at
\* that point: the proposal, or prev_state if it has been restored
RoundChecked(e, prop, u) ==
    LET bo == Face_locate(e.state)
        bn == Face_locate(prop)
    IN  IF bn # bo /\ (~IndexOK(e.ln_g, bo) \/ ~IndexOK(e.ln_g, bn))
        THEN [e EXCEPT !.state = prop, !.pc = "fault", !.old = bo, !.new = bn,
                       !.u = u]
        ELSE LET acc == Accept(e.ln_g, bo, bn, u)
                 bf == BinFinal(acc, bo, bn)
                 st == StateAfter(acc, e.state, prop)
             IN  IF ~IndexOK(e.ln_g, bf) \/ ~IndexOK(e.hist, bf)
                 THEN [e EXCEPT !.state = st, !.pc = "fault", !.old = bo,
                                !.new = bn, !.u = u]
                 ELSE [e EXCEPT !.state = st,
                                !.ln_g = Bookkeep_ln_g(e.ln_g, bf, e.ln_f),
                                !.hist = Bookkeep_hist(e.hist, bf),
                                !.i = @ + 1, !.old = bo, !.new = bn, !.u = u]

\* WLDriver::new with any bin enumeration, the empty one included, any
\* sweep_len, 0 included, and any initial state
InitFault ==
    /\ Parked
    /\ pair = NoPair
    /\ \E nb \in 0 .. NBins, sl \in 0 .. MaxSweep, fk \in Criteria,
          sk \in Schedules, s0 \in States :
          probe = [kind |-> "engine", nb |-> nb, sl |-> sl, fk |-> fk,
                   sk |-> sk, state |-> s0,
                   ln_g |-> [b \in 0 .. (nb - 1) |-> Zero],
                   hist |-> [b \in 0 .. (nb - 1) |-> 0],
                   ln_f |-> LnF0, step |-> 0, t |-> 1, pc |-> "idle", i |-> 0,
                   ret |-> "none", calls |-> 0, old |-> -1, new |-> -1,
                   u |-> NoDraw]

\* the caller invokes step()
FaultStepCall ==
    /\ probe.pc = "idle"
    /\ probe.calls < MaxFaultSteps
    /\ probe' = [probe EXCEPT !.pc = "sweep", !.i = 0, !.calls = @ + 1]
    /\ UNCHANGED <<wl, pair>>

\* one iteration of the sweep loop; the uniform value is drawn only when the
\* bins differ and ln_g could be read for both
FaultRound ==
    /\ probe.pc = "sweep"
    /\ probe.i < probe.sl
    /\ \E prop \in propose(probe.state), u \in UGrid \cup {NoDraw} :
          LET bo == Face_locate(probe.state)
              bn == Face_locate(prop)
              draws == /\ bn # bo
                       /\ IndexOK(probe.ln_g, bo)
                       /\ IndexOK(probe.ln_g, bn)
          IN  /\ (u = NoDraw) <=> ~draws
              /\ probe' = RoundChecked(probe, prop, u)
    /\ UNCHANGED <<wl, pair>>

\* the end of step(): the sweep loop is over, step() returns
FaultEnd ==
    /\ probe.pc = "sweep"
    /\ probe.i = probe.sl
    /\ LET r == StepTail(probe.fk, probe.sk, probe.hist, probe.ln_f, probe.t,
                         probe.step)
       IN  probe' = [probe EXCEPT !.hist = r.hist, !.ln_f = r.ln_f,
                                  !.t = r.t, !.step = r.step, !.ret = r.ret,
                                  !.pc = "idle"]
    /\ UNCHANGED <<wl, pair>>

NextFault == FaultStepCall \/ FaultRound \/ FaultEnd

SpecFault == InitFault /\ [][NextFault]_vars

\* -------------------------------- an engine stepped for ever (Geometric schedule)
MaxStage == 4    \* rounds of one stage: no Step is begun that would exceed it
MaxExp == 3      \* the smallest positive f64 of the model is 2^-MaxExp

\* the smallest positive f64
MinPositive == <<1, 2 ^ MaxExp>>

\* f64 multiplication: a product below the smallest positive f64 is 0.0
Underflow(x) == IF RLess(x, MinPositive) THEN Zero ELSE x

\* WLDriver::new with a Geometric schedule; the step counter, which no
\* decision of step() reads, is left out
InitLive ==
    /\ Parked
    /\ pair = NoPair
    /\ \E sl \in 1 .. MaxSweep, fk \in Criteria :
          probe = [kind |-> "engine", sl |-> sl, fk |-> fk, state |-> 0,
                   ln_g |-> [b \in Bins |-> Zero],
                   hist |-> [b \in Bins |-> 0], ln_f |-> LnF0,
                   pc |-> "idle", i |-> 0, ret |-> "none", was_flat |-> FALSE,
                   flats |-> 0, ever |-> FALSE]

\* the caller (the loop of run()) invokes step()
LiveStepCall ==
    /\ probe.pc = "idle"
    /\ Sum(probe.hist) + probe.sl <= MaxStage
    /\ probe' = [probe EXCEPT !.pc = "sweep", !.i = 0, !.was_flat = FALSE]
    /\ UNCHANGED <<wl, pair>>

\* one iteration of the sweep loop of step()
LiveRound ==
    /\ probe.pc = "sweep"
    /\ probe.i < probe.sl
    /\ \E prop \in propose(probe.state), u \in UGrid \cup {NoDraw} :
          LET bo == locate(probe.state)
              bn == locate(prop)
              acc == Accept(probe.ln_g, bo, bn, u)
              bf == BinFinal(acc, bo, bn)
          IN  /\ (u = NoDraw) <=> (bn = bo)
              /\ probe' = [probe EXCEPT
                              !.state = StateAfter(acc, probe.state, prop),
                              !.ln_g = Bookkeep_ln_g(probe.ln_g, bf, probe.ln_f),
                              !.hist = Bookkeep_hist(probe.hist, bf),
                              !.i = @ + 1]
    /\ UNCHANGED <<wl, pair>>

\* the end of step(); flats counts the flat events up to the first Step that
\* returns true
LiveEnd ==
    /\ probe.pc = "sweep"
    /\ probe.i = probe.sl
    /\ LET r == StepTail(probe.fk, "Geometric", probe.hist, probe.ln_f, 1, 0)
       IN  probe' = [probe EXCEPT
                        !.hist = r.hist,
                        !.ln_f = Underflow(r.ln_f),
                        !.ret = r.ret,
                        !.was_flat = r.flat,
                        !.flats = IF r.flat /\ ~probe.ever THEN @ + 1 ELSE @,
                        !.ever = @ \/ r.ret = "true",
                        !.pc = "idle"]
    /\ UNCHANGED <<wl, pair>>

NextLive == LiveStepCall \/ LiveRound \/ LiveEnd

\* step() runs to completion, and the caller goes on invoking it
SpecLive == InitLive /\ [][NextLive]_vars /\ WF_vars(NextLive)

\* ------------------------------------------------------------------- claims
\* a Step boundary: no sweep is in progress
AtBoundary == pc \in {"idle", "run", "runret"}

\* the step just taken is one round of a sweep
IsRound == i' = i + 1

\* C1: in every round, accepted or rejected, exactly the final bin is
\* updated: ln_g[final] grows by the current ln_f and hist[final] by 1, the
\* entries of every other bin are unchanged, and the final bin is the new
\* bin on acceptance and the old bin on rejection.
C1_OneBinPerRound ==
    [][IsRound =>
        LET bf == rnd'.final
        IN  /\ bf \in Bins
            /\ bf = (IF rnd'.accept THEN rnd'.new ELSE rnd'.old)
            /\ ln_g'[bf] = RAdd(ln_g[bf], ln_f)
            /\ hist'[bf] = hist[bf] + 1
            /\ \A b \in Bins \ {bf} : ln_g'[b] = ln_g[b] /\ hist'[b] = hist[b]
      ]_vars

\* a rejected round has been booked on the old bin while the other bin
\* already holds visits
C1_Witness ==
    /\ rnd.final \in Bins
    /\ ~rnd.accept
    /\ rnd.final = rnd.old
    /\ hist[rnd.final] >= 2
    /\ \E b \in Bins : b # rnd.final /\ hist[b] >= 1

\* C2: a proposal into the same bin is accepted; into another bin it is
\* accepted iff the draw u of [0, 1) is below exp(ln_g[b_old] - ln_g[b_new]).
\* So every proposal into a bin whose ln_g is at most that of the current
\* bin is accepted, and a rejection needs ln_g[b_new] > ln_g[b_old].
C2_AcceptanceRule ==
    [][IsRound =>
        LET bo == rnd'.old
            bn == rnd'.new
        IN  /\ bo = locate(state)
            /\ bn = locate(rnd'.prop)
            /\ (bn = bo) => rnd'.accept
            /\ (bn # bo) =>
                  /\ rnd'.u \in UGrid
                  /\ rnd'.accept <=> ULessExp(rnd'.u, RSub(ln_g[bo], ln_g[bn]))
            /\ RLeq(ln_g[bn], ln_g[bo]) => rnd'.accept
            /\ ~rnd'.accept => RLess(ln_g[bo], ln_g[bn])
      ]_vars

\* a move into a bin of larger ln_g was accepted on a positive draw (the
\* entry of the new bin, already raised by ln_f, is still the larger one)
C2_Witness ==
    /\ rnd.final \in Bins
    /\ rnd.accept
    /\ rnd.new # rnd.old
    /\ rnd.u \in UGrid \ {Zero}
    /\ RLess(RAdd(ln_g[rnd.old], ln_f), ln_g[rnd.new])

\* C3: a rejected round leaves the state as it was before the round and its
\* final bin is b_old; an accepted round leaves the proposed state and its
\* final bin is b_new.
C3_StateAfterRound ==
    [][IsRound =>
        /\ rnd'.accept =>
              /\ state' = rnd'.prop
              /\ rnd'.final = locate(rnd'.prop)
              /\ rnd'.final = rnd'.new
        /\ ~rnd'.accept =>
              /\ state' = state
              /\ rnd'.final = locate(state)
              /\ rnd'.final = rnd'.old
      ]_vars

\* a proposal that differs from the state was rejected
C3_Witness ==
    /\ rnd.final \in Bins
    /\ ~rnd.accept
    /\ rnd.prop # state
    /\ locate(state) = rnd.old

\* C4: the histogram sums to the number of rounds performed since its last
\* reset (or since construction); at a Step boundary that is sweep_len times
\* the number of Steps completed since then.
C4_HistogramSum ==
    /\ Sum(hist) = stage_rounds
    /\ AtBoundary => Sum(hist) = sweep_len * stage_steps

\* two Steps of two rounds each have completed since the last reset
C4_Witness ==
    /\ pc = "idle"
    /\ sweep_len = 2
    /\ stage_steps = 2
    /\ Sum(hist) = 4

\* C5: after a Step whose histogram was judged flat the histogram is all
\* zeros, also when that Step returned true; no other step of the engine
\* resets or decreases a histogram entry.
C5_ResetOnFlat ==
    /\ [](AtBoundary /\ ret # "none" /\ was_flat => \A b \in Bins : hist[b] = 0)
    /\ [][(\E b \in Bins : hist'[b] < hist[b]) =>
            pc = "sweep" /\ i = sweep_len /\ was_flat']_vars
    /\ [][pc = "sweep" /\ i = sweep_len /\ ~was_flat' => hist' = hist]_vars

\* a Step judged flat returned true and left a zeroed histogram
C5_Witness ==
    /\ pc = "idle"
    /\ ret = "true"
    /\ was_flat
    /\ \A b \in Bins : hist[b] = 0
    /\ stage_rounds = 0

\* C6: the step counter grows by exactly 1 in a Step that returns false and
\* is unchanged by a Step that returns true and by everything else, so it
\* equals the number of Steps that returned false and never decreases.
C6_StepCounter ==
    /\ [](step = n_false)
    /\ [][pc = "sweep" /\ i = sweep_len =>
            /\ ret' = "false" => step' = step + 1
            /\ ret' = "true" => step' = step]_vars
    /\ [][~(pc = "sweep" /\ i = sweep_len) => step' = step]_vars

\* a Step has returned true after at least one that returned false, and the
\* counter is behind the number of Step invocations
C6_Witness ==
    /\ pc = "idle"
    /\ ret = "true"
    /\ step >= 1
    /\ step < calls

\* C7: run(max_steps) invokes Step at most max_steps times and none after
\* the first Step that returns true; when no Step returns true it invokes
\* Step exactly max_steps times; run(0) changes nothing of the engine.
C7_RunBounded ==
    /\ [](run_calls <= run_max)
    /\ [](run_true <= 1)
    /\ [](caller = "run" /\ pc \in {"sweep", "run"} => run_true = 0)
    /\ [](run_end = "exhausted" => run_calls = run_max /\ run_true = 0)
    /\ [](run_end = "break" => run_true = 1)
    /\ [](run_true = 0 /\ caller = "none" /\ run_end # "none" =>
             run_calls = run_max)
    /\ [][run_calls' # run_calls /\ run_calls' # 0 =>
             run_calls' = run_calls + 1 /\ calls' = calls + 1
             /\ pc = "run" /\ pc' = "sweep"]_vars
    /\ [][run_max' = 0 /\ (pc = "run" \/ pc' = "run") =>
             UNCHANGED <<engine, calls, n_false, n_flat>>]_vars

\* a run for two Steps ended at its first Step, which returned true
C7_Witness ==
    /\ pc = "idle"
    /\ run_end = "break"
    /\ run_max = 2
    /\ run_calls = 1

\* C8 (as stated): Step returns true if ln_f is below the schedule's tol
\* after the Step, and false otherwise.
C8_TrueIffBelowTol ==
    AtBoundary /\ ret # "none" => (ret = "true" <=> RLess(ln_f, Tol))

\* C9: whenever Step returns true (so whenever run stops early) the
\* histogram was judged flat in that Step and ln_f after it is below tol.
C9_TrueOnlyWhenFlatAndBelowTol ==
    /\ AtBoundary /\ ret = "true" => was_flat /\ RLess(ln_f, Tol)
    /\ run_end = "break" => RLess(ln_f, Tol)

\* a Step under the 1/t schedule returned true
C9_Witness ==
    /\ sched = "OneOverT"
    /\ AtBoundary
    /\ ret = "true"
    /\ was_flat
    /\ ln_f = <<1, 3>>

RECURSIVE RPow(_, _)
RPow(a, k) == IF k = 0 THEN One ELSE RMul(a, RPow(a, k - 1))

\* C10: the schedule is updated only where a sweep ends and only when the
\* histogram was judged flat there, once: ln_f and the counter t change in
\* no round and in no Step that is not flat, t is 1 plus the number of flat
\* Steps under OneOverT, and ln_f has been multiplied by alpha once per flat
\* Step under Geometric.
C10_UpdateOnlyOnFlat ==
    /\ [](sched = "OneOverT" => t = 1 + n_flat)
    /\ [](sched = "OneOverT" /\ n_flat > 0 => ln_f = <<1, 1 + n_flat>>)
    /\ [](sched = "Geometric" => ln_f = RMul(LnF0, RPow(Alpha, n_flat)))
    /\ [][ln_f' # ln_f \/ t' # t =>
            /\ pc = "sweep"
            /\ i = sweep_len
            /\ is_flat(flat, hist, Flatness)
            /\ was_flat'
            /\ n_flat' = n_flat + 1]_vars
    /\ [][IsRound => ln_f' = ln_f /\ t' = t]_vars

\* under OneOverT two flat Steps have passed and a sweep is half done
C10_Witness ==
    /\ sched = "OneOverT"
    /\ t = 3
    /\ n_flat = 2
    /\ pc = "sweep"
    /\ i = 1
    /\ sweep_len = 2

\* C11: for every bin, ln_g never decreases: every step of the engine - a
\* round, the end of a Step with its histogram reset and schedule update, a
\* call or return of step or run - leaves each ln_g entry at least as large
\* as it was, and the end of a Step leaves ln_g as it was (ln_f0 = 1 >= 0,
\* and both schedules keep ln_f positive).
C11_LnGMonotone ==
    /\ [](RLess(Zero, ln_f))
    /\ [][/\ \A b \in Bins : RLeq(ln_g[b], ln_g'[b])
          /\ (~IsRound => ln_g' = ln_g)]_vars

\* a histogram reset and a schedule update have happened, and both bins keep
\* the estimate they had gathered
C11_Witness ==
    /\ AtBoundary
    /\ n_flat >= 1
    /\ was_flat
    /\ \A b \in Bins : hist[b] = 0 /\ RLess(Zero, ln_g[b])
    /\ RLess(ln_f, LnF0)

\* the step just taken is one invocation of update on the schedule on its own
IsUpdate == probe'.n = probe.n + 1

C13_GeometricClosedForm ==
    probe.kind = "Geometric" =>
        LET v == RMul(probe.f0, RPow(Alpha, probe.n))
        IN  /\ probe.ln_f = v
            /\ probe.n >= 1 => (probe.conv <=> RLess(v, Tol))
            /\ probe.n >= 1 /\ v = Tol => ~probe.conv

\* the second invocation has brought ln_f from 1.6 to tol = 0.4 exactly, and
\* has returned false
C13_Witness ==
    /\ probe.kind = "Geometric"
    /\ probe.f0 = <<8, 5>>
    /\ probe.n = 2
    /\ probe.ln_f = Tol
    /\ ~probe.conv

\* C14: 1/t schedule, counter starting at 1: after k >= 1 invocations of
\* update ln_f = 1/(k+1) whatever ln_f was before, and the k-th invocation has
\* returned true exactly when 1/(k+1) < tol.
C14_OneOverTClosedForm ==
    probe.kind = "OneOverT" =>
        /\ probe.t = probe.n + 1
        /\ probe.n >= 1 =>
              /\ probe.ln_f = <<1, probe.n + 1>>
              /\ probe.conv <=> RLess(<<1, probe.n + 1>>, Tol)

\* the second invocation on a schedule started at ln_f = 1.7 has set ln_f to
\* 1/3 < tol and has returned true, after a first one that returned false
C14_Witness ==
    /\ probe.kind = "OneOverT"
    /\ probe.f0 = <<17, 10>>
    /\ probe.n = 2
    /\ probe.ln_f = <<1, 3>>
    /\ probe.conv

\* all counts equal, at least one bin
AllEqual(h) == HLen(h) > 0 /\ \A a, b \in DOMAIN h : h[a] = h[b]

\* C15 as stated: for every non-empty histogram whose counts are all equal,
\* all zero included, both Fraction and RMS report flat for any flatness
\* parameter in (0, 1].
C15_EqualCountsFlat ==
    probe.done /\ AllEqual(probe.hist) => probe.res

\* C15 (amended): for every non-empty histogram whose counts are all equal
\* and any flatness parameter in (0, 1], Fraction reports flat, all-zero
\* histogram included, and RMS reports flat exactly when the common count is
\* positive: on the all-zero histogram RMS reports not flat.
C15_EqualCountsFlatUnlessZeroRMS ==
    probe.done /\ AllEqual(probe.hist) =>
        (probe.res <=> (probe.kind = "Fraction" \/ probe.hist[0] > 0))

\* RMS has judged the all-zero histogram of three bins, and found it not flat
C15_Witness ==
    /\ probe.done
    /\ probe.kind = "RMS"
    /\ HLen(probe.hist) = 3
    /\ AllEqual(probe.hist)
    /\ probe.hist[0] = 0
    /\ ~probe.res

\* one bin has no visits and every other bin has some, and there are others
OneZeroRestPositive(h) ==
    /\ HLen(h) >= 2
    /\ \E z \in DOMAIN h :
          h[z] = 0 /\ \A b \in DOMAIN h \ {z} : h[b] > 0

\* C16: for every histogram in which one bin has zero visits and all the
\* other bins (at least one) have positive counts, the Fraction criterion
\* reports not flat, for every flatness parameter in (0, 1].
C16_ZeroBinNotFlat ==
    probe.done /\ probe.kind = "Fraction" /\ OneZeroRestPositive(probe.hist)
        => ~probe.res

\* Fraction has judged [0, 4, 4] at the smallest parameter
C16_Witness ==
    /\ probe.done
    /\ probe.kind = "Fraction"
    /\ probe.hist = [b \in 0 .. 2 |-> IF b = 0 THEN 0 ELSE MaxCount]
    /\ probe.p = <<1, 4>>
    /\ ~probe.res

\* the mean of a non-empty histogram: the sum divided by the number of bins
Mean(h) == Norm(Sum(h), HLen(h))

\* m is the smallest count of h
IsMin(h, m) == (\E b \in DOMAIN h : h[b] = m) /\ (\A b \in DOMAIN h : m <= h[b])

\* C17: Fraction.is_flat(hist, p) returns true exactly when hist is non-empty
\* and min(hist) >= p * mean(hist), mean the sum divided by the number of
\* bins; it returns false for an empty histogram.
C17_FractionFormula ==
    probe.done /\ probe.kind = "Fraction" =>
        /\ probe.hist = <<>> => ~probe.res
        /\ probe.res <=>
              /\ probe.hist # <<>>
              /\ \E m \in 0 .. MaxCount :
                    /\ IsMin(probe.hist, m)
                    /\ RLeq(RMul(probe.p, Mean(probe.hist)), <<m, 1>>)

\* Fraction has judged [2, 3] at 0.8: min = 2 = 0.8 * 2.5, so it is flat
C17_Witness ==
    /\ probe.done
    /\ probe.kind = "Fraction"
    /\ probe.hist = [b \in 0 .. 1 |-> b + 2]
    /\ probe.p = <<4, 5>>
    /\ probe.res

\* the population variance of a non-empty histogram: the squared deviations
\* from the mean, summed and divided by the number of bins
RECURSIVE SqDevTo(_, _, _)
SqDevTo(h, mu, n) ==
    IF n = 0 THEN Zero
    ELSE LET d == RSub(<<h[n - 1], 1>>, mu)
         IN  RAdd(RMul(d, d), SqDevTo(h, mu, n - 1))

PopVar(h) == RMul(SqDevTo(h, Mean(h), HLen(h)), <<1, HLen(h)>>)

\* x <= 1.0 - p for a quotient x >= 0 given by its square x2: against the
\* rational 1 - p, strictly where the f64 difference 1.0 - p lies below it
LeqOneMinus(x2, p) ==
    LET c == RSub(One, p)
    IN  IF p \in OneMinusRoundsDown THEN RLess(x2, RMul(c, c))
        ELSE RLeq(x2, RMul(c, c))

C19_HigherIsStricter ==
    probe.done /\ probe.res =>
        \A p2 \in Ps :
            RLeq(p2, probe.p) => is_flat(probe.kind, probe.hist, p2)

\* RMS has judged [3, 4] flat at 0.8, the parameter below which every other
\* one of the model but 0.9 and 1 lies
C19_Witness ==
    /\ probe.done
    /\ probe.kind = "RMS"
    /\ probe.hist = [b \in 0 .. 1 |-> b + 3]
    /\ probe.p = <<4, 5>>
    /\ probe.res
    /\ ~is_flat(probe.kind, probe.hist, <<9, 10>>)

C21_Construction ==
    /\ DOMAIN ln_g = Bins /\ HLen(ln_g) = NBins
    /\ DOMAIN hist = Bins /\ HLen(hist) = NBins
    /\ calls = 0 =>
          /\ \A b \in Bins : ln_g[b] = Zero /\ hist[b] = 0
          /\ ln_f = LnF0
          /\ step = 0

\* a run has used up its Steps after a histogram reset and further rounds
C21_Witness ==
    /\ run_end = "exhausted"
    /\ run_calls >= 1
    /\ n_flat >= 1
    /\ Sum(hist) >= 1
    /\ HLen(hist) = NBins

\* the step just taken is an iteration of the sweep loop, completed or not
IsCheckedRound == probe.pc = "sweep" /\ probe.i < probe.sl /\ probe' # probe

\* C22: if the mapper returns an index outside the bins for the current or
\* the proposed state during a round, Step faults in that same round, and the
\* faulting round performs no bookkeeping: ln_g, the histogram and the step
\* counter are as they were before the round.  A round with both indices
\* inside the bins does not fault.
C22_FaultNoBookkeeping ==
    [][IsCheckedRound =>
        LET bad == \/ probe'.old \notin 0 .. (probe.nb - 1)
                   \/ probe'.new \notin 0 .. (probe.nb - 1)
        IN  /\ probe'.old = Face_locate(probe.state)
            /\ bad <=> probe'.pc = "fault"
            /\ probe'.pc = "fault" =>
                  /\ probe'.ln_g = probe.ln_g
                  /\ probe'.hist = probe.hist
                  /\ probe'.step = probe.step
                  /\ probe'.i = probe.i
      ]_vars

\* the second Step of an engine with all its bins has faulted on a proposed
\* state beyond the last bin, after rounds that had been booked
C22_Witness ==
    /\ probe.kind = "engine"
    /\ probe.pc = "fault"
    /\ probe.nb = NBins
    /\ probe.calls = 2
    /\ probe.old \in Bins
    /\ probe.new = NBins
    /\ Sum(probe.hist) >= 1

\* C23 as stated: with an empty bin enumeration or with sweep_len = 0, no
\* Step completes normally: an invocation of Step ends in an out-of-range
\* access fault, never in a return.
C23_PreconditionViolationFaults ==
    probe.nb = 0 \/ probe.sl = 0 => probe.ret = "none" /\ probe.step = 0

\* Steps that have returned so far, and whether one of them returned true
Returned == IF pc = "sweep" THEN calls - 1 ELSE calls
Converged == Returned > n_false

\* C24: the engine has no terminal state.  After a Step has returned true,
\* step() and run() can be invoked again (within the rounds of the model); a
\* Step then performs sweep_len rounds again, each adding ln_f to one ln_g
\* entry and 1 to the histogram; and a run then ends only by break at a Step
\* that returned true, or after max_steps Steps none of which returned true.
C24_NoTerminalState ==
    /\ [](Converged /\ pc = "idle" =>
            /\ (calls + 1) * sweep_len <= MaxRounds => ENABLED StepCall
            /\ ENABLED RunCall)
    /\ [](Converged =>
            /\ run_end = "break" =>
                  ret = "true" /\ run_true = 1 /\ run_calls <= run_max
            /\ run_end = "exhausted" => run_true = 0 /\ run_calls = run_max)
    /\ [][Converged =>
            /\ IsRound =>
                  /\ Sum(hist') = Sum(hist) + 1
                  /\ \E b \in Bins : ln_g'[b] = RAdd(ln_g[b], ln_f)
            /\ pc = "sweep" /\ pc' # "sweep" => i = sweep_len
         ]_vars

\* after a Step that returned true, a run has made further Steps, with
\* rounds booked, and has ended by break at a second Step that returned true
C24_Witness ==
    /\ pc = "idle"
    /\ run_end = "break"
    /\ Returned - n_false = 2
    /\ run_calls >= 1

\* ln_g[b] less ln_f * hist[b]: what ln_g[b] was when the stage began, if
\* every visit of the stage added the stage's ln_f
StageBase(b) == RSub(ln_g[b], RMul(ln_f, <<hist[b], 1>>))

\* the same after the step just taken
StageBaseNext(b) == RSub(ln_g'[b], RMul(ln_f', <<hist'[b], 1>>))

\* the step just taken ends a stage: the histogram was judged flat
IsStageEnd == n_flat' = n_flat + 1

\* C27: within a stage - from construction, or from a histogram reset, to the
\* next reset - ln_g[b] = (ln_g[b] at the start of the stage) + ln_f * hist[b]
\* for every bin b at every round boundary: the first stage starts with
\* ln_g[b] = 0, a reset starts a stage with hist[b] = 0 and ln_g[b] as it is,
\* and no other step changes ln_g[b] - ln_f * hist[b].  The rounds of the
\* stage are the visits: their number is the sum of the histogram.
C27_StageLinear ==
    /\ [](n_flat = 0 => \A b \in Bins : StageBase(b) = Zero)
    /\ [](Sum(hist) = stage_rounds)
    /\ [][\A b \in Bins :
            IF IsStageEnd
            THEN hist'[b] = 0 /\ StageBaseNext(b) = ln_g[b]
            ELSE StageBaseNext(b) = StageBase(b)
         ]_vars

\* in a stage after the first, with ln_f below ln_f0, both bins have been
\* visited, one of them twice, on top of what the bin had gathered before
C27_Witness ==
    /\ n_flat >= 1
    /\ RLess(ln_f, LnF0)
    /\ hist[0] >= 1
    /\ hist[1] >= 2
    /\ RLess(Zero, StageBase(1))
    /\ ln_g[1] = RAdd(StageBase(1), RMul(ln_f, <<hist[1], 1>>))

\* C28: at the end of every round the bin of the engine's state is the final
\* bin, the one whose ln_g and histogram entries the round updated, whether
\* the move was accepted or rolled back; nothing but a round changes the
\* state, so the state at a Step boundary is still in the bin booked last.
C28_StateInFinalBin ==
    /\ [](pc = "sweep" /\ i >= 1 => locate(state) = rnd.final)
    /\ [][IF IsRound
          THEN /\ locate(state') = rnd'.final
               /\ hist'[locate(state')] = hist[locate(state')] + 1
          ELSE state' = state
         ]_vars

\* a move to the other bin has been rolled back: the state is in the old bin,
\* which is the bin booked
C28_Witness ==
    /\ pc = "sweep"
    /\ i >= 1
    /\ ~rnd.accept
    /\ rnd.new # rnd.old
    /\ locate(state) = rnd.old
    /\ rnd.final = rnd.old

\* the least k with ln_f0 * alpha^k < tol
KConv ==
    CHOOSE k \in 0 .. MaxExp + 1 :
        /\ RLess(RMul(LnF0, RPow(Alpha, k)), Tol)
        /\ \A j \in 0 .. (k - 1) : ~RLess(RMul(LnF0, RPow(Alpha, j)), Tol)

\* the last Step judged the histogram flat
FlatEvent == probe.was_flat

\* some Step has returned true
HasConverged == probe.ever

\* ln_f is below tol
BelowTol == \A x \in {probe.ln_f} : RLess(x, Tol)

\* C25: Geometric schedule (alpha = 0.5, tol = 0.4, ln_f0 = 1.0).  If the
\* histogram is judged flat again and again, some Step returns true.  The
\* first Step that returns true is the one with the k-th flat event, k the
\* least integer with ln_f0 * alpha^k < tol: no earlier Step returns true and
\* that one does.  From then on ln_f is below tol.
C25_EventuallyConverges ==
    /\ [](HasConverged => BelowTol)
    /\ [](HasConverged <=> probe.flats = KConv)
    /\ [](~HasConverged => probe.ln_f = RMul(LnF0, RPow(Alpha, probe.flats)))
    /\ ([]<>FlatEvent) => <>(HasConverged /\ probe.ret = "true")
    /\ ([]<>FlatEvent) => <>[]BelowTol

\* the Step with the second flat event has just returned true, ln_f = 0.25
C25_Witness ==
    /\ probe.kind = "engine"
    /\ probe.ret = "true"
    /\ probe.was_flat
    /\ probe.flats = 2
    /\ probe.ln_f = <<1, 4>>
====
